---- MODULE Spec2Model ----
(***************************************************************************)
(* Model of mailbot.py: for every configured client a Mailbot object is    *)
(* constructed, and its constructor fetches the client's mailbox over IMAP *)
(* (GetMessages) and stores what it fetched in the database               *)
(* (ProcessMessages / ProcessMessage).  The IMAP server and the MySQL      *)
(* server are the environment: every answer they can give is drawn with \E.*)
(* An exception no handler of mailbot.py catches ends the process          *)
(* (pc = "crashed").                                                       *)
(***************************************************************************)
EXTENDS Integers, Sequences, FiniteSets, TLC

VARIABLES
    pc,            \* position of the single thread of the process
    raised,        \* the exception that ended the process ("" while it runs)
    cur,           \* index in Sections of the client being constructed (0: none yet)
    interval,      \* interval[c]: self.interval of client c, for the clients constructed
    mail,          \* mail[c]: the IMAP connection of client c
    cnx,           \* cnx[c]: the database connection of client c
    uids,          \* uids returned by the search of the current cycle
    fetchIdx,      \* position in uids of the next uid to fetch
    fetchLog,      \* history: <<uid, result>> of every fetch of the current cycle
    absent,        \* TRUE when GetMessages returned None
    messages,      \* self.messages (meaningful when ~absent)
    idx,           \* position in self.messages of the message being processed
    leads,         \* vicidial_list, committed rows
    emails,        \* vicidial_email_list, committed rows
    txLeads,       \* vicidial_list as the open connection sees it
    txEmails,      \* vicidial_email_list as the open connection sees it
    nextLeadId,    \* AUTO_INCREMENT counter of vicidial_list
    lastInsertId,  \* LAST_INSERT_ID() of the open connection
    commits,       \* history: number of cnx.commit() calls of the current cycle
    emailsAtStart, \* history: committed vicidial_email_list when the cycle started
    searched,      \* history: number of uids the searches of the run have returned
    errlog         \* history: <<client, uid, what>> of every logger.error of a statement

vars == <<pc, raised, cur, interval, mail, cnx, uids, fetchIdx, fetchLog, absent, messages,
          idx, leads, emails, txLeads, txEmails, nextLeadId, lastInsertId, commits,
          emailsAtStart, searched, errlog>>

----------------------------------------------------------------------------
(* Bounds of the model *)

\* Total number of uids all searches of a run return.
MaxFetches == 3

----------------------------------------------------------------------------
(* Configuration and environment *)

\* sorted(cp.sections() - {'LOGGING'})
Sections == <<"alpha", "beta">>

Clients == 1..Len(Sections)

\* Mailbot.DefaultInterval
DefaultInterval == 60

\* cp[n].get('interval', Mailbot.DefaultInterval) of each section: the first
\* leaves the option out, the second asks for a single shot
IntervalOption == <<DefaultInterval, 0>>

\* Python's None
None == "None"

\* An attribute the constructor never assigned
Unset == "Unset"

\* Message.MaxFromName
MaxFromName == 80

\* Rows of vicidial_inbound_groups, which the program only reads
InboundGroups == { [email |-> "support@y.com", group_id |-> "SALES"] }

\* A display name is a sequence of characters
JaneDoe == <<"J", "a", "n", "e", " ", "D", "o", "e">>

Bob == <<"B", "o", "b">>

\* A Content-Type value is a sequence of characters
TextPlain ==
    << "t", "e", "x", "t", "/", "p", "l", "a", "i", "n" >>

TextHtml ==
    << "t", "e", "x", "t", "/", "h", "t", "m", "l" >>

MultipartMixed ==
    << "m", "u", "l", "t", "i", "p", "a", "r", "t", "/", "m", "i", "x", "e",
       "d", ";", " ", "b", "o", "u", "n", "d", "a", "r", "y", "=", "x" >>

MultipartAlternative ==
    << "m", "u", "l", "t", "i", "p", "a", "r", "t", "/", "a", "l", "t", "e",
       "r", "n", "a", "t", "i", "v", "e", ";", " ", "b", "o", "u", "n", "d",
       "a", "r", "y", "=", "y" >>

\* The envelope all others vary: Jane Doe <jane@x.com> to support@y.com
BaseEnvelope ==
    [ hasFrom |-> TRUE, fromName |-> JaneDoe, fromAddr |-> "jane@x.com",
      to |-> "support@y.com", date |-> "Thu, 22 Jun 2017 20:02:33 +0100",
      hasCtype |-> TRUE, ctype |-> TextPlain,
      body |-> [multipart |-> FALSE, content |-> <<"h", "i">>] ]

\* The envelopes the IMAP server may hold
Envelopes ==
    { BaseEnvelope,
      [BaseEnvelope EXCEPT !.fromName = <<>>,
                           !.ctype = MultipartAlternative,
                           !.body = [multipart |-> TRUE, content |-> <<"part one">>]],
      [BaseEnvelope EXCEPT !.fromName = Bob, !.fromAddr = "bob@z.com",
                           !.to = "other@y.com",
                           !.ctype = MultipartMixed,
                           !.body = [multipart |-> TRUE, content |-> <<"part one">>]],
      [BaseEnvelope EXCEPT !.date = "not a date"],
      [BaseEnvelope EXCEPT !.hasFrom = FALSE],
      [BaseEnvelope EXCEPT !.to = None, !.ctype = TextHtml],
      [BaseEnvelope EXCEPT !.hasCtype = FALSE, !.ctype = <<>>],
      [BaseEnvelope EXCEPT !.body = [multipart |-> FALSE, content |-> <<>>]] }

----------------------------------------------------------------------------
(* Message.__init__ *)

\* email.utils.parsedate_to_datetime: the datetime of a well-formed Date
\* header; any other value (None included) raises
DateParses(d) == d = "Thu, 22 Jun 2017 20:02:33 +0100"

\* s[:n]
Truncate(s, n) == SubSeq(s, 1, IF Len(s) < n THEN Len(s) ELSE n)

\* self.message['Content-Type'].startswith(...) on a message without the
\* header calls a method of None: AttributeError, which except KeyError
\* does not catch
MessageRaises(env) == ~env.hasCtype

\* s.startswith(p)
StartsWith(s, p) == Len(s) >= Len(p) /\ SubSeq(s, 1, Len(p)) = p

\* The prefixes the constructor tests, in the order it tests them
PrefixPlain ==
    << "t", "e", "x", "t", "/", "p", "l", "a", "i", "n" >>

PrefixMixed ==
    << "m", "u", "l", "t", "i", "p", "a", "r", "t", "/", "m", "i", "x", "e",
       "d", ";" >>

PrefixAlternative ==
    << "m", "u", "l", "t", "i", "p", "a", "r", "t", "/", "a", "l", "t", "e",
       "r", "n", "a", "t", "i", "v", "e", ";" >>

\* self.multipart after the if/elif chain on a Content-Type value: "False",
\* "True", or never assigned (the else branch only logs a warning)
Multipart(ctype) ==
    IF StartsWith(ctype, PrefixPlain) THEN "False"
    ELSE IF StartsWith(ctype, PrefixMixed) THEN "True"
    ELSE IF StartsWith(ctype, PrefixAlternative) THEN "True"
    ELSE Unset


\* The Message built from a fetched envelope (defined when the constructor
\* returns).  Without a From header fromname and fromaddress are never
\* assigned; without a To header toaddress is None.
Message(env, uid) ==
    [ imapuid     |-> uid,
      message     |-> env,
      multipart   |-> Multipart(env.ctype),
      toaddress   |-> env.to,
      fromname    |-> IF env.hasFrom THEN Truncate(env.fromName, MaxFromName) ELSE <<>>,
      fromaddress |-> IF env.hasFrom THEN env.fromAddr ELSE Unset,
      date        |-> IF DateParses(env.date) THEN "datetime" ELSE None,
      errors      |-> (env.to = None) \/ ~env.hasFrom \/ ~DateParses(env.date) ]

----------------------------------------------------------------------------
(* Initial state: no client constructed, empty tables *)

NoConn == [c \in Clients |-> "none"]

Init ==
    /\ pc = "main"
    /\ raised = ""
    /\ cur = 0
    /\ interval = <<>>
    /\ mail = NoConn
    /\ cnx = NoConn
    /\ uids = <<>>
    /\ fetchIdx = 1
    /\ fetchLog = <<>>
    /\ absent = FALSE
    /\ messages = <<>>
    /\ idx = 1
    /\ leads = <<>>
    /\ emails = <<>>
    /\ txLeads = <<>>
    /\ txEmails = <<>>
    /\ nextLeadId = 1
    /\ lastInsertId = 0
    /\ commits = 0
    /\ emailsAtStart = <<>>
    /\ searched = 0
    /\ errlog = {}

\* An exception nothing catches ends the process
Raise(exc) ==
    /\ pc' = "crashed"
    /\ raised' = exc

dbVars == <<leads, emails, txLeads, txEmails, nextLeadId, lastInsertId, commits, errlog>>

fetchVars == <<uids, fetchIdx, fetchLog, absent, messages, searched>>

----------------------------------------------------------------------------
(* __main__ and Mailbot.__init__ *)

\* Mailbot(n, cp[n]) for the next section: read the options, then call
\* GetMessages
NewClient ==
    /\ pc = "main"
    /\ cur < Len(Sections)
    /\ cur' = cur + 1
    /\ interval' = Append(interval, IntervalOption[cur + 1])
    /\ uids' = <<>>
    /\ fetchIdx' = 1
    /\ fetchLog' = <<>>
    /\ absent' = FALSE
    /\ messages' = <<>>
    /\ idx' = 1
    /\ commits' = 0
    /\ emailsAtStart' = emails
    /\ pc' = "connect"
    /\ UNCHANGED <<raised, mail, cnx, leads, emails, txLeads, txEmails, nextLeadId,
                   lastInsertId, searched, errlog>>

\* The list comprehension over the sections is finished
Finish ==
    /\ pc = "main"
    /\ cur = Len(Sections)
    /\ pc' = "exit"
    /\ UNCHANGED <<raised, cur, interval, mail, cnx, idx, emailsAtStart>>
    /\ UNCHANGED fetchVars
    /\ UNCHANGED dbVars

----------------------------------------------------------------------------
(* Mailbot.GetMessages *)

\* What imaplib.IMAP4_SSL(self.mailhost) can do: return a connection, raise
\* imaplib.IMAP4.error, or raise a socket error with ECONNREFUSED or with
\* another errno
ConnectOutcomes == {"ok", "imap_error", "refused", "socket_error"}

\* GetMessages returns None (return, or falling off the end of the function)
ReturnNone ==
    /\ absent' = TRUE
    /\ pc' = "dbconnect"
    /\ UNCHANGED raised
    /\ UNCHANGED <<uids, fetchIdx, fetchLog, messages, searched>>

\* imaplib.IMAP4_SSL(self.mailhost) and its except clauses
Connect ==
    /\ pc = "connect"
    /\ \E o \in ConnectOutcomes :
         CASE o = "ok" ->
                /\ mail' = [mail EXCEPT ![cur] = "connected"]
                /\ pc' = "login"
                /\ UNCHANGED raised
                /\ UNCHANGED fetchVars
           [] o \in {"imap_error", "refused"} ->
                /\ ReturnNone
                /\ UNCHANGED mail
           [] o = "socket_error" ->
                /\ Raise("socket.error")
                /\ UNCHANGED mail
                /\ UNCHANGED fetchVars
    /\ UNCHANGED <<cur, interval, cnx, idx, emailsAtStart>>
    /\ UNCHANGED dbVars

\* mail.login(...): on imaplib.IMAP4.error the function returns and leaves
\* the connection as it is
Login ==
    /\ pc = "login"
    /\ \E ok \in BOOLEAN :
         IF ok
         THEN /\ mail' = [mail EXCEPT ![cur] = "authenticated"]
              /\ pc' = "select"
              /\ UNCHANGED raised
              /\ UNCHANGED fetchVars
         ELSE /\ ReturnNone
              /\ UNCHANGED mail
    /\ UNCHANGED <<cur, interval, cnx, idx, emailsAtStart>>
    /\ UNCHANGED dbVars

\* The uid lists a search may return: 1..n
UidLists == { [i \in 1..n |-> i] : n \in 0..(MaxFetches - searched) }

\* mail.select(self.mailfolder) and mail.search(...).  select does not raise
\* when the folder cannot be selected; the search that follows then raises
\* imaplib.IMAP4.error (SEARCH illegal in state AUTH) and the function
\* returns without closing.  A search result other than OK leaves the list
\* empty.
SelectAndSearch ==
    /\ pc = "select"
    /\ \E selected \in BOOLEAN :
         IF ~selected
         THEN /\ ReturnNone
              /\ UNCHANGED mail
         ELSE /\ mail' = [mail EXCEPT ![cur] = "selected"]
              /\ \E result \in {"OK", "NO"} :
                   IF result = "OK"
                   THEN \E u \in UidLists :
                          /\ uids' = u
                          /\ searched' = searched + Len(u)
                   ELSE UNCHANGED <<uids, searched>>
              /\ fetchIdx' = 1
              /\ pc' = "fetch"
              /\ UNCHANGED <<raised, fetchLog, absent, messages>>
    /\ UNCHANGED <<cur, interval, cnx, idx, emailsAtStart>>
    /\ UNCHANGED dbVars

\* One turn of the loop over the uids: mail.fetch(uid, ...), and on OK
\* messages.append(Message(data, uid)).  An exception of the constructor is
\* not caught.
Fetch ==
    /\ pc = "fetch"
    /\ fetchIdx <= Len(uids)
    /\ LET uid == uids[fetchIdx] IN
         \/ /\ fetchLog' = Append(fetchLog, <<uid, "NO">>)
            /\ fetchIdx' = fetchIdx + 1
            /\ UNCHANGED <<messages, pc, raised>>
         \/ \E env \in Envelopes :
              /\ fetchLog' = Append(fetchLog, <<uid, "OK">>)
              /\ IF MessageRaises(env)
                 THEN /\ Raise("AttributeError")
                      /\ UNCHANGED <<messages, fetchIdx>>
                 ELSE /\ messages' = Append(messages, Message(env, uid))
                      /\ fetchIdx' = fetchIdx + 1
                      /\ UNCHANGED <<pc, raised>>
    /\ UNCHANGED <<cur, interval, mail, cnx, idx, emailsAtStart, uids, absent, searched>>
    /\ UNCHANGED dbVars

\* After the loop: mail.close() and return messages
CloseMailbox ==
    /\ pc = "fetch"
    /\ fetchIdx > Len(uids)
    /\ mail' = [mail EXCEPT ![cur] = "closed"]
    /\ pc' = "dbconnect"
    /\ UNCHANGED <<raised, cur, interval, cnx, idx, emailsAtStart>>
    /\ UNCHANGED fetchVars
    /\ UNCHANGED dbVars

----------------------------------------------------------------------------
(* Mailbot.ProcessMessage *)

\* str.split(): the maximal runs of non-blank characters of s from
\* position i on, word being the run read so far
RECURSIVE SplitFrom(_, _, _)
SplitFrom(s, i, word) ==
    IF i > Len(s)
    THEN IF word = <<>> THEN <<>> ELSE <<word>>
    ELSE IF s[i] = " "
         THEN IF word = <<>>
              THEN SplitFrom(s, i + 1, <<>>)
              ELSE <<word>> \o SplitFrom(s, i + 1, <<>>)
         ELSE SplitFrom(s, i + 1, Append(word, s[i]))

Split(s) == SplitFrom(s, 1, <<>>)

\* " ".join(parts)
RECURSIVE Join(_)
Join(parts) ==
    IF parts = <<>> THEN <<>>
    ELSE IF Len(parts) = 1 THEN parts[1]
    ELSE parts[1] \o <<" ">> \o Join(Tail(parts))

\* parts[1:]
Rest(parts) == IF parts = <<>> THEN <<>> ELSE Tail(parts)

\* select ... from vicidial_list where email = %s: the matching rows in
\* table order (fetchone takes the first).  The database is taken to accept
\* this statement, and the other two selects; the statements it may reject
\* with ProgrammingError are the two inserts.
SelectLead(tbl, addr) == SelectSeq(tbl, LAMBDA row : row.email = addr)

\* select group_id from vicidial_inbound_groups where email = %(to)s, and
\* "Unknown" when fetchone finds no row
GroupFor(to) ==
    IF \E g \in InboundGroups : g.email = to
    THEN (CHOOSE g \in InboundGroups : g.email = to).group_id
    ELSE "Unknown"

\* message.message.get_payload()[0] raises IndexError on an empty payload
PayloadRaises(body) == body.content = <<>>

\* get_payload()[0].get_payload(): the payload of the first part; the first
\* element of a string payload is a string, which has no get_payload
Payload(body) ==
    IF body.multipart THEN body.content[1] ELSE "*** NO MESSAGE CONTENT ***"

\* s.split(';')[0]: the characters of s before its first semicolon
RECURSIVE BeforeSemicolon(_)
BeforeSemicolon(s) ==
    IF s = <<>> \/ Head(s) = ";" THEN <<>>
    ELSE <<Head(s)>> \o BeforeSemicolon(Tail(s))

\* message.date.strftime('%Y-%m-%d %H:%M:%S')
Strftime(date) == "2017-06-22 20:02:33"

\* The row the insert into vicidial_list adds; by is history: the client and
\* uid of the message that wrote it
LeadRow(id, m, parts, by) ==
    [ lead_id |-> id, email |-> m.fromaddress, first_name |-> parts[1],
      last_name |-> Join(Rest(parts)), by |-> by ]

\* The row the insert into vicidial_email_list adds
EmailRow(lead_id, m, group, by) ==
    [ lead_id |-> lead_id, protocol |-> "IMAP", email_date |-> Strftime(m.date),
      email_to |-> m.message.to, email_from |-> m.fromaddress,
      email_from_name |-> m.fromname,
      content_type |-> BeforeSemicolon(m.message.ctype),
      message |-> Payload(m.message.body), email_account_id |-> "MAILBOT",
      group_id |-> group, status |-> "NEW", direction |-> "INBOUND", by |-> by ]

\* The lookup-or-create step: the lead table, LAST_INSERT_ID, the
\* AUTO_INCREMENT counter and the lead_id it ends with.  A rejected insert
\* (ProgrammingError) is logged and SELECT LAST_INSERT_ID() is run all the
\* same.
ResolveLead(m, by, rejected, tbl, last, next) ==
    LET result == SelectLead(tbl, m.fromaddress)
        parts  == Split(m.fromname)
    IN  IF result # <<>>
        THEN [ raised |-> "", leads |-> tbl, last |-> last, next |-> next,
               lead_id |-> result[1].lead_id, logged |-> {} ]
        ELSE IF parts = <<>>
        THEN [ raised |-> "IndexError", leads |-> tbl, last |-> last, next |-> next,
               lead_id |-> 0, logged |-> {} ]
        ELSE IF rejected
        THEN [ raised |-> "", leads |-> tbl, last |-> last, next |-> next,
               lead_id |-> last, logged |-> {<<by[1], by[2], "lead">>} ]
        ELSE [ raised |-> "", leads |-> Append(tbl, LeadRow(next, m, parts, by)),
               last |-> next, next |-> next + 1, lead_id |-> next, logged |-> {} ]

\* StoreEmail with the row inserted twice
StoreEmailTwice(m, by, lead_id, rejected, tbl) ==
    IF PayloadRaises(m.message.body)
    THEN [ raised |-> "IndexError", emails |-> tbl, logged |-> {} ]
    ELSE IF m.date = None
    THEN [ raised |-> "AttributeError", emails |-> tbl, logged |-> {} ]
    ELSE IF rejected
    THEN [ raised |-> "", emails |-> tbl, logged |-> {<<by[1], by[2], "email">>} ]
    ELSE [ raised |-> "", logged |-> {},
           emails |-> tbl \o << EmailRow(lead_id, m, GroupFor(m.toaddress), by),
                                EmailRow(lead_id, m, GroupFor(m.toaddress), by) >> ]

\* Building and running the insert into vicidial_email_list: the payload
\* and message.date.strftime raise what the except clause does not catch; a
\* rejected insert (ProgrammingError) is logged
StoreEmail(m, by, lead_id, rejected, tbl) ==
    IF PayloadRaises(m.message.body)
    THEN [ raised |-> "IndexError", emails |-> tbl, logged |-> {} ]
    ELSE IF m.date = None
    THEN [ raised |-> "AttributeError", emails |-> tbl, logged |-> {} ]
    ELSE IF rejected
    THEN [ raised |-> "", emails |-> tbl, logged |-> {<<by[1], by[2], "email">>} ]
    ELSE [ raised |-> "", logged |-> {},
           emails |-> Append(tbl, EmailRow(lead_id, m, GroupFor(m.toaddress), by)) ]

\* ProcessMessage(message, cursor) for the message at idx
ProcessMessage ==
    /\ pc = "loop"
    /\ ~absent
    /\ idx <= Len(messages)
    /\ LET m  == messages[idx]
           by == <<cur, m.imapuid>>
       IN  IF m.fromaddress = Unset
           THEN /\ Raise("AttributeError")
                /\ UNCHANGED <<txLeads, txEmails, nextLeadId, lastInsertId, errlog>>
           ELSE \E leadRejected, emailRejected \in BOOLEAN :
                  LET r == ResolveLead(m, by, leadRejected, txLeads, lastInsertId,
                                       nextLeadId)
                      e == StoreEmail(m, by, r.lead_id, emailRejected, txEmails)
                  IN  /\ txLeads' = r.leads
                      /\ lastInsertId' = r.last
                      /\ nextLeadId' = r.next
                      /\ errlog' = errlog \cup r.logged
                                           \cup (IF r.raised = "" THEN e.logged ELSE {})
                      /\ txEmails' = IF r.raised = "" THEN e.emails ELSE txEmails
                      /\ IF r.raised # "" THEN Raise(r.raised)
                         ELSE IF e.raised # "" THEN Raise(e.raised)
                         ELSE pc' = "commit" /\ UNCHANGED raised
    /\ UNCHANGED <<cur, interval, mail, cnx, idx, leads, emails, commits, emailsAtStart>>
    /\ UNCHANGED fetchVars

----------------------------------------------------------------------------
(* Mailbot.ProcessMessages *)

\* pymysql.connect(...): OperationalError is logged and the method returns;
\* otherwise a cursor on a new connection, which sees the committed rows
DbConnect ==
    /\ pc = "dbconnect"
    /\ \E ok \in BOOLEAN :
         IF ok
         THEN /\ cnx' = [cnx EXCEPT ![cur] = "open"]
              /\ txLeads' = leads
              /\ txEmails' = emails
              /\ lastInsertId' = 0
              /\ pc' = "loop"
              /\ UNCHANGED errlog
         ELSE /\ errlog' = errlog \cup {<<cur, 0, "connect">>}
              /\ pc' = "main"
              /\ UNCHANGED <<cnx, txLeads, txEmails, lastInsertId>>
    /\ idx' = 1
    /\ UNCHANGED <<raised, cur, interval, mail, leads, emails, nextLeadId, commits, emailsAtStart>>
    /\ UNCHANGED fetchVars

\* for message in self.messages, with self.messages None: TypeError
IterateNone ==
    /\ pc = "loop"
    /\ absent
    /\ Raise("TypeError")
    /\ UNCHANGED <<cur, interval, mail, cnx, idx, emailsAtStart>>
    /\ UNCHANGED fetchVars
    /\ UNCHANGED dbVars

\* Commit with the commit left out of the loop
CommitLeftOut ==
    /\ pc = "commit"
    /\ commits' = commits + 1
    /\ idx' = idx + 1
    /\ pc' = "loop"
    /\ UNCHANGED <<raised, cur, interval, mail, cnx, leads, emails, txLeads, txEmails,
                   nextLeadId, lastInsertId, emailsAtStart, errlog>>
    /\ UNCHANGED fetchVars

\* cnx.commit() after ProcessMessage returned, and on to the next message
Commit ==
    /\ pc = "commit"
    /\ leads' = txLeads
    /\ emails' = txEmails
    /\ commits' = commits + 1
    /\ idx' = idx + 1
    /\ pc' = "loop"
    /\ UNCHANGED <<raised, cur, interval, mail, cnx, txLeads, txEmails, nextLeadId,
                   lastInsertId, emailsAtStart, errlog>>
    /\ UNCHANGED fetchVars

\* cursor.close() and cnx.close() after the loop; the constructor returns
CloseDb ==
    /\ pc = "loop"
    /\ ~absent
    /\ idx > Len(messages)
    /\ cnx' = [cnx EXCEPT ![cur] = "closed"]
    /\ pc' = "main"
    /\ UNCHANGED <<raised, cur, interval, mail, idx, emailsAtStart>>
    /\ UNCHANGED fetchVars
    /\ UNCHANGED dbVars

----------------------------------------------------------------------------

Next ==
    \/ NewClient
    \/ Connect
    \/ Login
    \/ SelectAndSearch
    \/ Fetch
    \/ CloseMailbox
    \/ DbConnect
    \/ IterateNone
    \/ ProcessMessage
    \/ Commit
    \/ CloseDb
    \/ Finish

Spec == Init /\ [][Next]_vars

----------------------------------------------------------------------------
(* The Job Driver's view of a client *)

\* Where client c is: not constructed yet, in GetMessages, in
\* ProcessMessages, constructed (the constructor returned: the program has
\* nothing more to do for it), or ended by an exception
DriverState(c) ==
    IF c > cur THEN "Idle"
    ELSE IF c < cur \/ pc \in {"main", "exit"} THEN "Done"
    ELSE IF pc \in {"connect", "login", "select", "fetch"} THEN "Fetching"
    ELSE IF pc \in {"dbconnect", "loop", "commit"} THEN "Persisting"
    ELSE "Crashed"

----------------------------------------------------------------------------
(* Properties *)

Range(s) == { s[i] : i \in DOMAIN s }

\* The uids of self.messages, in list order
MessageUids == [k \in DOMAIN messages |-> messages[k].imapuid]

\* The position in self.messages of the message with this uid
PosOf(uid) == CHOOSE k \in DOMAIN messages : messages[k].imapuid = uid

\* The rows of a table the current client wrote
Mine(tbl) == { r \in Range(tbl) : r.by[1] = cur }

\* The exception came out of ProcessMessage
CrashedInProcessMessage ==
    pc = "crashed" /\ cur >= 1 /\ ~absent /\ cnx[cur] = "open"

\* ProcessMessage was called for messages[idx] and is over
Handled == cur >= 1 /\ ~absent /\ (pc = "commit" \/ CrashedInProcessMessage)

\* The rows vicidial_email_list has gained since the cycle started
Gained == SubSeq(emails, Len(emailsAtStart) + 1, Len(emails))

\* The messages whose processing is committed and whose insert into
\* vicidial_email_list was not rejected
Accepted ==
    SelectSeq(SubSeq(messages, 1, idx - 1),
              LAMBDA m : <<cur, m.imapuid, "email">> \notin errlog)

\* C1: the lead table holds at most one row per sender address; once
\* ProcessMessage has handled a message, exactly one lead has its sender
\* address, and all stored messages of one sender carry the same lead id.
C1_OneLeadPerSender ==
    /\ \A i, j \in DOMAIN txLeads : txLeads[i].email = txLeads[j].email => i = j
    /\ (Handled /\ messages[idx].fromaddress # Unset)
         => Len(SelectLead(txLeads, messages[idx].fromaddress)) = 1
    /\ \A a, b \in Range(txEmails) : a.email_from = b.email_from => a.lead_id = b.lead_id

\* C2: the lead_id of every stored message is the id of a lead row whose
\* email is the message's sender address.
C2_EmailReferencesItsLead ==
    \A e \in Range(emails) :
        \E l \in Range(leads) : l.lead_id = e.lead_id /\ l.email = e.email_from

\* C3 as stated: when a cycle that stored its batch is over, the table has
\* gained exactly one row for each message GetMessages returned, each IMAP,
\* NEW and INBOUND, and the rows it had before are unchanged.
C3_OneRowPerFetchedMessage ==
    (cur >= 1 /\ pc \in {"main", "exit"} /\ cnx[cur] = "closed") =>
        /\ Len(emails) >= Len(emailsAtStart)
        /\ SubSeq(emails, 1, Len(emailsAtStart)) = emailsAtStart
        /\ Len(Gained) = Len(messages)
        /\ \A i \in DOMAIN Gained :
              /\ Gained[i].by = <<cur, messages[i].imapuid>>
              /\ Gained[i].protocol = "IMAP"
              /\ Gained[i].status = "NEW"
              /\ Gained[i].direction = "INBOUND"

\* C3 as amended: at every point of a cycle the committed table is the table
\* as the cycle found it, followed by exactly one row (IMAP, NEW, INBOUND)
\* for each message that is processed and committed and whose insert the
\* database did not reject, in list order.
C3_OneRowPerAcceptedMessage ==
    /\ Len(emails) >= Len(emailsAtStart)
    /\ SubSeq(emails, 1, Len(emailsAtStart)) = emailsAtStart
    /\ Len(Gained) = Len(Accepted)
    /\ \A i \in DOMAIN Gained :
          /\ Gained[i].by = <<cur, Accepted[i].imapuid>>
          /\ Gained[i].email_from = Accepted[i].fromaddress
          /\ Gained[i].protocol = "IMAP"
          /\ Gained[i].status = "NEW"
          /\ Gained[i].direction = "INBOUND"

\* C3 witness: a second cycle is over that found rows in the table, fetched
\* two messages and stored one of them, the other's insert being rejected.
C3_Witness ==
    /\ cur >= 1
    /\ pc = "main"
    /\ cnx[cur] = "closed"
    /\ emailsAtStart # <<>>
    /\ Len(messages) = 2
    /\ Len(emails) = Len(emailsAtStart) + 1
    /\ \E m \in Range(messages) : <<cur, m.imapuid, "email">> \in errlog

\* C4: when GetMessages returns None the cycle opens no database connection
\* and raises nothing.
C4_AbortSkipsPersisting ==
    (cur >= 1 /\ absent) => (cnx[cur] = "none" /\ raised = "")

\* C5: a cycle that connected to the database and is over has processed and
\* committed every message of its batch, and every message without a stored
\* row has its failure logged.
C5_FailureDoesNotAbortBatch ==
    (cur >= 1 /\ ~absent /\ cnx[cur] # "none" /\ pc \in {"main", "exit", "crashed"}) =>
        /\ commits = Len(messages)
        /\ \A m \in Range(messages) :
              \/ \E e \in Range(emails) : e.by = <<cur, m.imapuid>>
              \/ <<cur, m.imapuid, "email">> \in errlog

\* C6: a message with a malformed Date has date None and its error flag
\* set, and no message with its error flag set ends the batch: ProcessMessage
\* never raises on it.
C6_ParseAnomalyTolerated ==
    \A k \in DOMAIN messages :
        /\ ~DateParses(messages[k].message.date)
              => (messages[k].date = None /\ messages[k].errors)
        /\ messages[k].errors => ~(CrashedInProcessMessage /\ idx = k)

\* C7: there is one commit per processed message, and the committed rows of
\* the current client are exactly the rows written for the messages before
\* the one at idx: when processing stops at message idx, everything written
\* for earlier messages is committed and nothing written for it is.
C7_CommitPerMessage ==
    cur >= 1 =>
        /\ commits = idx - 1
        /\ Mine(leads) = { r \in Mine(txLeads) : PosOf(r.by[2]) < idx }
        /\ Mine(emails) = { r \in Mine(txEmails) : PosOf(r.by[2]) < idx }

\* C7 witness: ProcessMessage raised at the second or a later message after
\* inserting a lead for it; an earlier message's row is committed.
C7_Witness ==
    /\ CrashedInProcessMessage
    /\ idx >= 2
    /\ \E r \in Mine(txLeads) : r.by[2] = messages[idx].imapuid /\ r \notin Range(leads)
    /\ Mine(emails) # {}

\* C8: a client with a non-zero interval is never done: after Persisting
\* (its database connection has been opened and closed) it sleeps and fetches
\* again.
C8_IntervalRepeats ==
    \A c \in 1..cur :
        (interval[c] # 0 /\ cnx[c] = "closed") => DriverState(c) # "Done"

\* C9: when the cycle of a client that logged in to its mailbox is over,
\* however it ended, its mailbox session and its database connection are
\* closed.
C9_CycleClosesWhatItOpens ==
    \A c \in 1..cur :
        (DriverState(c) \in {"Done", "Crashed"} /\ mail[c] \notin {"none", "connected"}) =>
            /\ mail[c] = "closed"
            /\ cnx[c] # "open"

\* C10: once the loop over the uids is over, self.messages holds exactly the
\* messages whose fetch returned OK, in search order, and the rows stored
\* for them are in that order.
C10_FetchOrderKept ==
    LET ok == SelectSeq(fetchLog, LAMBDA f : f[2] = "OK") IN
    (cur >= 1 /\ ~absent /\ raised # "socket.error"
       /\ pc \in {"dbconnect", "loop", "commit", "main", "exit", "crashed"}) =>
        /\ MessageUids = [k \in DOMAIN ok |-> ok[k][1]]
        /\ \A i, j \in DOMAIN Gained :
              i < j => PosOf(Gained[i].by[2]) < PosOf(Gained[j].by[2])

\* The literal "UNKNOWN"
Unknown == <<"U", "N", "K", "N", "O", "W", "N">>

\* C11: every lead the current client created has the first whitespace-
\* separated token of the sender's display name as first_name, and as
\* last_name the remaining tokens joined by single spaces, or "UNKNOWN" when
\* there are none.
C11_NameSplit ==
    \A r \in Mine(txLeads) :
        LET tokens == Split(messages[PosOf(r.by[2])].fromname) IN
            /\ r.first_name = tokens[1]
            /\ r.last_name = IF Len(tokens) > 1 THEN Join(Tail(tokens)) ELSE Unknown

\* The exception came out of Message.__init__, in the loop over the uids
CrashedInConstructor ==
    pc = "crashed" /\ raised = "AttributeError" /\ cur >= 1 /\ cnx[cur] = "none"

\* C12: the constructor never raises on the Content-Type of a fetched
\* message, and every message built has multipart "False" for a value
\* starting with text/plain, "True" for one starting with multipart/mixed or
\* multipart/alternative, and no multipart attribute for any other value.
C12_ContentTypeNeverBlocks ==
    /\ ~CrashedInConstructor
    /\ \A m \in Range(messages) :
          LET ct == m.message.ctype IN
              IF StartsWith(ct, TextPlain) THEN m.multipart = "False"
              ELSE IF StartsWith(ct, SubSeq(MultipartMixed, 1, 15))
                      \/ StartsWith(ct, SubSeq(MultipartAlternative, 1, 21))
                   THEN m.multipart = "True"
                   ELSE m.multipart = Unset

====
